---- MODULE Spec2Model ----
(***************************************************************************)
(* Model of the multi-tenant TRON funding / notification gateway           *)
(* (src/server.js).                                                        *)
(*                                                                         *)
(* Strings that the code takes apart (host names, environment variable     *)
(* names) are sequences of one-character strings, so that replace(),       *)
(* split() and toUpperCase() are computed and not assumed.  A header that  *)
(* is absent and a header that is the empty string are both falsy in       *)
(* JavaScript and every test in the code is a truthiness test, so both are *)
(* the empty sequence.                                                     *)
(***************************************************************************)
EXTENDS Integers, Sequences, FiniteSets, TLC

(***************************************************************************)
(* Bounds                                                                  *)
(***************************************************************************)
MaxRequests == 3

Slots == {1, 2}

(***************************************************************************)
(* Character strings                                                       *)
(***************************************************************************)
EMPTY == <<>>

WWW_DOT == <<"w", "w", "w", ".">>

A_COM == <<"a", ".", "c">>

B_COM == <<"b", ".", "c">>

D_COM == <<"d", ".", "c">>

EVIL_COM == <<"e", ".", "c">>

\* A tenant whose record has no wallet address
N_COM == <<"n", ".", "c">>

\* A tenant whose name holds the characters "www." after its first character
XWWW_COM == <<"x", "w", "w", "w", ".", "c">>

API_HOST == <<"s", ".", "r">>

WWW_A_COM == WWW_DOT \o A_COM

WWW_XWWW_COM == WWW_DOT \o XWWW_COM

A_COM_PORT == A_COM \o <<":", "8">>

CONSTRUCTOR == <<"c", "o", "n", "s", "t", "r", "u", "c", "t", "o", "r">>

\* Is pat a substring of s starting at position i?
OccursAt(s, pat, i) ==
    /\ i >= 1
    /\ i + Len(pat) - 1 <= Len(s)
    /\ \A k \in 1..Len(pat) : s[i + k - 1] = pat[k]

\* String.prototype.indexOf, 1-based; 0 when pat does not occur
IndexOf(s, pat) ==
    IF \E i \in 1..Len(s) : OccursAt(s, pat, i)
    THEN CHOOSE i \in 1..Len(s) :
            /\ OccursAt(s, pat, i)
            /\ \A j \in 1..(i - 1) : ~OccursAt(s, pat, j)
    ELSE 0

\* s.replace(pat, ''): a string pattern removes the FIRST occurrence only,
\* wherever it is in s
\* s without the n characters from position i on (s itself when i is 0)
CutAt(s, i, n) ==
    IF i = 0 THEN s
    ELSE SubSeq(s, 1, i - 1) \o SubSeq(s, i + n, Len(s))

ReplaceFirst(s, pat) == CutAt(s, IndexOf(s, pat), Len(pat))

\* s.split(':')[0]
BeforeColon(s) == CutAt(s, IndexOf(s, <<":">>), Len(s))

UpperChar(c) ==
    CASE c = "a" -> "A" [] c = "b" -> "B" [] c = "c" -> "C" [] c = "d" -> "D"
      [] c = "e" -> "E" [] c = "n" -> "N" [] c = "o" -> "O" [] c = "r" -> "R"
      [] c = "s" -> "S" [] c = "t" -> "T" [] c = "u" -> "U" [] c = "w" -> "W"
      [] c = "x" -> "X"
      [] OTHER -> c

\* `TENANT_${domain.replace(/\./g, '_').toUpperCase()}_PRIVATE_KEY`: the
\* variable part of the name (prefix and suffix are the same for all)
EnvKeyName(domain) ==
    [i \in 1..Len(domain) |->
        UpperChar(IF domain[i] = "." THEN "_" ELSE domain[i])]

(***************************************************************************)
(* Header values.  Origin and Referer are parsed by new URL(): a value is  *)
(* absent, a string that new URL() rejects, or a URL with a scheme and a   *)
(* hostname.                                                               *)
(***************************************************************************)
NoUrl == [kind |-> "absent", scheme |-> "", hostname |-> EMPTY]

Malformed == [kind |-> "malformed", scheme |-> "", hostname |-> EMPTY]

Url(scheme, hostname) == [kind |-> "url", scheme |-> scheme, hostname |-> hostname]

Hdr(origin, host, referer) == [origin |-> origin, host |-> host, referer |-> referer]

(***************************************************************************)
(* TenantStore: tenants.json and the environment                           *)
(***************************************************************************)
\* One record of tenants.json.  A missing string field is "", a missing
\* enabled flag is "unset".
TenantRecord(addr, key, bot, chat, send, min, enabled) ==
    [tronAddress |-> addr, tronPrivateKey |-> key, telegramBotToken |-> bot,
     telegramChatId |-> chat, autoSendAmount |-> send, minimumBalance |-> min,
     enabled |-> enabled]

\* process.env: the per-domain secret slots, by the variable part of the name
Env == (EnvKeyName(A_COM) :> "envKeyA")

EnvLookup(name) == IF name \in DOMAIN Env THEN Env[name] ELSE ""

\* The value of process.env.ADMIN_KEY when the operator has set it
ADMIN_KEY == "adminKey"

\* undefined: an environment variable that is not set, a field the body or
\* the query string does not have
Undefined == "<undefined>"

\* tenants.json as the operator provisioned it
InitialTenantsFile ==
    (A_COM :> TenantRecord("TA", "fileKeyA", "botA", "chatA", 13, 11, "unset"))
 @@ (B_COM :> TenantRecord("TB", "fileKeyB", "", "", 13, 11, "true"))
 @@ (D_COM :> TenantRecord("TD", "", "botD", "chatD", 13, 11, "true"))
 @@ (N_COM :> TenantRecord("", "fileKeyN", "", "", 13, 11, "true"))
 @@ (XWWW_COM :> TenantRecord("TX", "fileKeyX", "", "", 13, 11, "true"))

\* A merge that keeps the record's own key when it has one
MergeKey_RecordFirst(record, privateKey) ==
    IF record.tronPrivateKey = "" /\ privateKey # ""
    THEN [record EXCEPT !.tronPrivateKey = privateKey]
    ELSE record

\* loadTenants(): parse the file, then overwrite each record's tronPrivateKey
\* with the environment's value when there is one
\* tenants[domain].tronPrivateKey = privateKey, if (privateKey)  (lines 98-100)
MergeKey(record, privateKey) ==
    IF privateKey # ""
    THEN [record EXCEPT !.tronPrivateKey = privateKey]
    ELSE record

loadTenants(file) ==
    [d \in DOMAIN file |-> MergeKey(file[d], EnvLookup(EnvKeyName(d)))]

\* Names every object parsed by JSON.parse inherits from Object.prototype
ObjectPrototypeKeys == {CONSTRUCTOR}

\* What an inherited member (the function Object) answers for the tenant fields
InheritedMember == TenantRecord("", "", "", "", 0, 0, "unset")

\* tenants[domain]: a JavaScript property read, own keys first, then the
\* prototype chain, else undefined
TenantLookup(tenants, domain) ==
    IF domain \in DOMAIN tenants
    THEN [found |-> "own", rec |-> tenants[domain]]
    ELSE IF domain \in ObjectPrototypeKeys
         THEN [found |-> "inherited", rec |-> InheritedMember]
         ELSE [found |-> "undefined", rec |-> InheritedMember]

Truthy(lookup) == lookup.found # "undefined"

(***************************************************************************)
(* DomainResolver                                                          *)
(***************************************************************************)
\* extractDomain(req); null and '' are both the empty sequence
extractDomain(h) ==
    IF h.origin.kind = "url"
    THEN ReplaceFirst(h.origin.hostname, WWW_DOT)
    ELSE IF h.host # EMPTY
         THEN BeforeColon(ReplaceFirst(h.host, WWW_DOT))
         ELSE IF h.referer.kind = "url"
              THEN ReplaceFirst(h.referer.hostname, WWW_DOT)
              ELSE EMPTY

(***************************************************************************)
(* Cross-origin policy                                                     *)
(***************************************************************************)
getAllowedOrigins(file) ==
    UNION {{Url("https", d), Url("https", WWW_DOT \o d),
            Url("http", d), Url("http", WWW_DOT \o d)} :
                d \in DOMAIN loadTenants(file)}

\* The origin callback of cors(): TRUE when the request is let through
CorsAllows(origin, file) ==
    \/ origin.kind = "absent"
    \/ /\ origin.kind = "url"
       /\ Truthy(TenantLookup(loadTenants(file),
                              ReplaceFirst(origin.hostname, WWW_DOT)))
    \/ origin \in getAllowedOrigins(file)

(***************************************************************************)
(* AuthorizationGate                                                       *)
(***************************************************************************)
\* A gate that tests the signing secret only
GateDecision_KeyOnly(domain, lookup, envPrivateKey) ==
    IF domain = EMPTY
    THEN [admit |-> FALSE, status |-> 403, error |-> "Domain not detected",
          tenant |-> InheritedMember]
    ELSE IF ~Truthy(lookup)
    THEN [admit |-> FALSE, status |-> 403, error |-> "Domain not authorized",
          tenant |-> InheritedMember]
    ELSE IF envPrivateKey = "" /\ lookup.rec.tronPrivateKey = ""
    THEN [admit |-> FALSE, status |-> 500,
          error |-> "Tenant configuration incomplete",
          tenant |-> InheritedMember]
    ELSE [admit |-> TRUE, status |-> 0, error |-> "",
          tenant |-> MergeKey(lookup.rec, envPrivateKey)]

\* tenantMiddleware(req, res, next): the response it sends, or the tenant it
\* attaches to the request
GateDecision(domain, lookup, envPrivateKey) ==
    IF domain = EMPTY
    THEN [admit |-> FALSE, status |-> 403, error |-> "Domain not detected",
          tenant |-> InheritedMember]
    ELSE IF ~Truthy(lookup)
    THEN [admit |-> FALSE, status |-> 403, error |-> "Domain not authorized",
          tenant |-> InheritedMember]
    ELSE IF (envPrivateKey = "" /\ lookup.rec.tronPrivateKey = "")
            \/ lookup.rec.tronAddress = ""
    THEN [admit |-> FALSE, status |-> 500,
          error |-> "Tenant configuration incomplete",
          tenant |-> InheritedMember]
    ELSE [admit |-> TRUE, status |-> 0, error |-> "",
          tenant |-> MergeKey(lookup.rec, envPrivateKey)]

GateFor(domain, file) ==
    GateDecision(domain, TenantLookup(loadTenants(file), domain),
                 EnvLookup(EnvKeyName(domain)))

tenantMiddleware(h, file) == GateFor(extractDomain(h), file)

(***************************************************************************)
(* State                                                                   *)
(***************************************************************************)
VARIABLES
    tenantsFile,            \* tenants.json: domain -> record
    processedTransactions,  \* Map: domain -> Set of transaction ids
    chain,                  \* the blockchain: transaction id -> on-chain result
    req,                    \* the requests in flight, one per slot
    last,                   \* the request the latest step answered, if any
    sent,                   \* calls made to the chat transport, per (domain, id)
    returned,               \* (domain, id) of approval calls that were answered
    returnedChecked,        \* ... and were answered after the dedup check
    nreq,                   \* requests received so far
    adminResp,              \* the last response of an administrative endpoint
    switched,               \* domain -> the flag the last successful write stored
    balance,                \* the blockchain: address -> balance in sun
    transfers,              \* the transfers broadcast so far, in order
    envAdminKey             \* process.env.ADMIN_KEY of the running process

vars == <<tenantsFile, processedTransactions, chain, req, last, sent,
          returned, returnedChecked, nreq, adminResp, switched, balance,
          transfers, envAdminKey>>

NoTx == ""

TxIds == {"T1"}

\* What trx.getTransaction can resolve to
Tx(exists, hasRet, retLen, contractRet) ==
    [exists |-> exists, hasRet |-> hasRet, retLen |-> retLen,
     contractRet |-> contractRet]

NoTransaction == Tx(FALSE, FALSE, 0, "")

\* What a request saw of the lookup: nothing yet, an answer, or an error
NoLookup == [kind |-> "none", tx |-> NoTransaction]

LookupAnswer(tx) == [kind |-> "returned", tx |-> tx]

LookupError == [kind |-> "threw", tx |-> NoTransaction]

\* The shapes of answer the blockchain gives for a transaction in each state
ChainAnswers(state) ==
    IF state = "pending"
    THEN {NoTransaction, Tx(TRUE, FALSE, 0, ""), Tx(TRUE, TRUE, 0, "")}
    ELSE {Tx(TRUE, TRUE, 1, state)}

Body(type, approved, transactionId) ==
    [type |-> type, approved |-> approved, transactionId |-> transactionId]

NoBody == Body("", "absent", NoTx)

\* No amount was read
NoAmount == -1

\* tronWeb.fromSun(sun): the amount in TRX as a decimal number, here its
\* whole part and its millionths
fromSun(sun) == [trx |-> sun \div 1000000, micro |-> sun % 1000000]

\* No amount was reported
NoTrx == [trx |-> NoAmount, micro |-> 0]

\* No transaction id was reported
NoTxid == 0

\* A request as it arrives, nothing decided yet
NewRequest(endpoint, h, body) ==
    [pc |-> "received", endpoint |-> endpoint, hdr |-> h, body |-> body,
     domain |-> EMPTY, tenant |-> InheritedMember,
     status |-> 0, error |-> "", message |-> "",
     authorized |-> "na", enabled |-> "na",
     notificationSent |-> "na", duplicate |-> FALSE,
     \* POST /send-trx: body.userAddress and the fields of its responses
     userAddress |-> "", sent |-> "na", txid |-> NoTxid, amount |-> 0,
     recipient |-> "", balance |-> NoTrx, serverBalance |-> NoTrx,
     \* GET /server-info: the serverAddress of its response
     serverAddress |-> "",
     required |-> 0,
     \* what happened to it (history)
     balanceRead |-> NoAmount, walletRead |-> NoAmount, signed |-> FALSE,
     submitted |-> 0, broadcast |-> "none", topUp |-> "none",
     corsPassed |-> FALSE, ownTenant |-> FALSE, tenantEnabled |-> "na",
     admitted |-> FALSE, lookup |-> NoLookup, reachedDedup |-> FALSE,
     attempted |-> FALSE, transport |-> FALSE, outcome |-> "none",
     responses |-> 0,
     afterReturned |-> FALSE, afterChecked |-> FALSE]

IdleRequest == [NewRequest("", Hdr(NoUrl, EMPTY, NoUrl), NoBody) EXCEPT !.pc = "idle"]

SentKeys == (DOMAIN InitialTenantsFile) \X ({NoTx} \cup TxIds)

\* The response of an administrative endpoint; adminKey, domain and
\* tronPrivateKey are those of the request it answers, tenants is the list a
\* response carries
AdminAnswer(status, error) ==
    [status |-> status, error |-> error, endpoint |-> "", adminKey |-> "",
     domain |-> EMPTY, tronPrivateKey |-> "", tenants |-> {}]

Asked(adminKey, domain, answer) ==
    [answer EXCEPT !.endpoint = "switch", !.adminKey = adminKey,
                   !.domain = domain]

\* The domains POST /admin/add-tenant is asked to add: a new one, a name
\* with a leading "www.", a name with a capital, a stored one, none
AddDomains == {EVIL_COM, WWW_A_COM, <<"A", ".", "c">>, B_COM, EMPTY}

\* The domains the store can come to hold
StoreDomains == (DOMAIN InitialTenantsFile) \cup (AddDomains \ {EMPTY})

\* The address requests ask to fund
USER == "TU"

Addresses == {USER} \cup {InitialTenantsFile[d].tronAddress : d \in DOMAIN InitialTenantsFile}

\* tronWeb.toSun(trx): 1 TRX is 1,000,000 sun
toSun(trx) == trx * 1000000

\* Nothing has been received or recorded yet
InitRequests ==
    /\ processedTransactions = <<>>
    /\ chain = [t \in TxIds |-> "pending"]
    /\ req = [r \in Slots |-> IdleRequest]
    /\ last = IdleRequest
    /\ sent = [k \in SentKeys |-> 0]
    /\ returned = {}
    /\ returnedChecked = {}
    /\ nreq = 0
    /\ adminResp = AdminAnswer(0, "")
    /\ switched = [d \in StoreDomains |-> "none"]
    /\ transfers = <<>>

\* Everything but the balances
InitStore ==
    /\ tenantsFile = InitialTenantsFile
    /\ envAdminKey = ADMIN_KEY
    /\ InitRequests

Init ==
    /\ InitStore
    /\ balance = [a \in Addresses |-> toSun(40)]

\* res.status(s).json({...}): the request is answered
Respond(q, status, error, message) ==
    [q EXCEPT !.pc = "done", !.status = status, !.error = error,
              !.message = message, !.responses = @ + 1]

\* What the gate saw, noted on the request
Resolved(q, domain, file) ==
    [q EXCEPT !.corsPassed = TRUE,
              !.domain = domain,
              !.ownTenant = domain \in DOMAIN file,
              !.tenantEnabled =
                  IF domain \in DOMAIN file THEN file[domain].enabled ELSE "na"]

Gated(q, g) ==
    IF g.admit
    THEN [q EXCEPT !.admitted = TRUE, !.tenant = g.tenant]
    ELSE Respond(q, g.status, g.error, "")

\* The part every route shares: the cors() callback, then (for a gated route)
\* tenantMiddleware.  An Error from the callback goes to the error handler
\* (lines 974-981).
Arrive(endpoint, h, body, gated) ==
    IF ~CorsAllows(h.origin, tenantsFile)
    THEN Respond(NewRequest(endpoint, h, body), 500, "Internal server error",
                 "Not allowed by CORS")
    ELSE IF ~gated
    THEN Resolved(NewRequest(endpoint, h, body), extractDomain(h), tenantsFile)
    ELSE Gated(Resolved(NewRequest(endpoint, h, body), extractDomain(h),
                        tenantsFile),
               tenantMiddleware(h, tenantsFile))

\* A request that suspends lives in the lowest free slot until it is answered
CanReceive(r) ==
    /\ req[r].pc = "idle"
    /\ \A r2 \in Slots : r2 < r => req[r2].pc # "idle"
    /\ nreq < MaxRequests

\* The request is answered, or it is suspended in slot r
Settle(r, q) ==
    IF q.pc = "done"
    THEN /\ req' = [req EXCEPT ![r] = IdleRequest]
         /\ last' = q
    ELSE /\ req' = [req EXCEPT ![r] = q]
         /\ last' = IdleRequest

(***************************************************************************)
(* NotificationDispatcher and NotificationDeduplicator                     *)
(***************************************************************************)
\* A test that looks at the bot token only
TelegramConfigured_TokenOnly(tenant) == tenant.telegramBotToken # ""

\* !tenant.telegramBotToken || !tenant.telegramChatId  (lines 239, 275)
TelegramConfigured(tenant) ==
    tenant.telegramBotToken # "" /\ tenant.telegramChatId # ""

\* A check that forgets the boolean false
ApprovalRejected_StringOnly(approved) == approved = "'false'"

\* approved === false || approved === 'false'  (line 533); the boolean false
\* is "false", the string 'false' is "'false'"
ApprovalRejected(approved) == approved = "false" \/ approved = "'false'"

\* A check that forgets the empty result list
VerificationFailed_NoEmptyCheck(tx) ==
    \/ ~tx.exists
    \/ ~tx.hasRet
    \/ (tx.retLen > 0 /\ tx.contractRet # "SUCCESS")

\* !transaction || !transaction.ret || transaction.ret.length === 0 ||
\* transaction.ret[0].contractRet !== 'SUCCESS'  (line 548)
VerificationFailed(tx) ==
    \/ ~tx.exists
    \/ ~tx.hasRet
    \/ tx.retLen = 0
    \/ tx.contractRet # "SUCCESS"

\* transactionId && domainProcessed.has(transactionId)  (line 568)
IsDuplicate(transactionId, domainProcessed) ==
    transactionId # NoTx /\ transactionId \in domainProcessed

\* A marking that is left out
MarkProcessed_Never(domainProcessed, transactionId) == domainProcessed

\* A marking that does not test the id
MarkProcessed_Always(domainProcessed, transactionId) ==
    domainProcessed \cup {transactionId}

\* if (transactionId) domainProcessed.add(transactionId)  (lines 589-591)
MarkProcessed(domainProcessed, transactionId) ==
    IF transactionId # NoTx
    THEN domainProcessed \cup {transactionId}
    ELSE domainProcessed

NotifyAnswer(q, message, notificationSent, duplicate) ==
    [Respond(q, 200, "", message) EXCEPT !.notificationSent = notificationSent,
                                         !.duplicate = duplicate]

\* Lines 562-591 up to the call of the chat transport: the dedup check, then
\* sendApprovalNotification up to its axios.post.  Without chat credentials
\* sendApprovalNotification returns false at once, and the id is marked and
\* the request answered before any other request can run.
DedupAndDispatch(q, processed, sentv) ==
    LET t == q.body.transactionId
        proc1 == IF q.domain \in DOMAIN processed THEN processed
                 ELSE processed @@ (q.domain :> {})
        q1 == [q EXCEPT !.reachedDedup = TRUE]
    IN  IF IsDuplicate(t, proc1[q.domain])
        THEN [q |-> NotifyAnswer(q1, "Notification already sent", "false", TRUE),
              processed |-> proc1, sent |-> sentv]
        ELSE IF ~TelegramConfigured(q.tenant)
        THEN [q |-> NotifyAnswer([q1 EXCEPT !.attempted = TRUE],
                                 "Telegram notification sent", "false", FALSE),
              processed |-> [proc1 EXCEPT ![q.domain] = MarkProcessed(@, t)],
              sent |-> sentv]
        ELSE [q |-> [q1 EXCEPT !.pc = "awaitTelegram", !.attempted = TRUE,
                               !.transport = TRUE],
              processed |-> proc1,
              sent |-> [sentv EXCEPT ![<<q.domain, t>>] = @ + 1]]

\* A handler that takes every type but wallet_connect for an approval
NotifyHandler_OpenSet(q, processed, sentv) ==
    LET same == [q |-> q, processed |-> processed, sent |-> sentv]
    IN  IF q.body.type = "wallet_connect"
        THEN [same EXCEPT !.q = NotifyAnswer(q,
                 "Wallet connect notification (not implemented)", "false", FALSE)]
        ELSE IF ApprovalRejected(q.body.approved)
        THEN [same EXCEPT !.q = NotifyAnswer(q,
                 "Approval not successful, notification skipped", "false", FALSE)]
        ELSE IF q.body.transactionId # NoTx
        THEN [same EXCEPT !.q = [q EXCEPT !.pc = "awaitLookup"]]
        ELSE DedupAndDispatch(q, processed, sentv)

\* The handler of POST /telegram-notify from its first line to its first
\* await or its response (lines 526-611)
NotifyHandler(q, processed, sentv) ==
    LET same == [q |-> q, processed |-> processed, sent |-> sentv]
    IN  IF q.body.type = "transaction_approve"
        THEN IF ApprovalRejected(q.body.approved)
             THEN [same EXCEPT !.q = NotifyAnswer(q,
                      "Approval not successful, notification skipped",
                      "false", FALSE)]
             ELSE IF q.body.transactionId # NoTx
                  THEN [same EXCEPT !.q = [q EXCEPT !.pc = "awaitLookup"]]
                  ELSE DedupAndDispatch(q, processed, sentv)
        ELSE IF q.body.type = "wallet_connect"
        THEN [same EXCEPT !.q = NotifyAnswer(q,
                 "Wallet connect notification (not implemented)", "false", FALSE)]
        ELSE [same EXCEPT !.q = Respond(q, 400, "Invalid notification type", "")]

\* An approval call the dedup rule speaks about
IsApprovalCall(q) ==
    /\ q.endpoint = "telegram-notify"
    /\ q.admitted
    /\ q.body.type = "transaction_approve"
    /\ q.body.approved = "true"
    /\ q.body.transactionId # NoTx

Answered(q, set, checkedOnly) ==
    IF q.pc = "done" /\ IsApprovalCall(q) /\ (checkedOnly => q.reachedDedup)
    THEN set \cup {<<q.domain, q.body.transactionId>>}
    ELSE set

\* The effect of one step of a /telegram-notify request on the state
NotifyStep(r, out) ==
    /\ Settle(r, out.q)
    /\ processedTransactions' = out.processed
    /\ sent' = out.sent
    /\ returned' = Answered(out.q, returned, FALSE)
    /\ returnedChecked' = Answered(out.q, returnedChecked, TRUE)

\* Whether approval calls for the same (domain, id) were answered before
After(q) ==
    [q EXCEPT
        !.afterReturned = <<q.domain, q.body.transactionId>> \in returned,
        !.afterChecked = <<q.domain, q.body.transactionId>> \in returnedChecked]

Handle(q) ==
    IF q.admitted
    THEN NotifyHandler(q, processedTransactions, sent)
    ELSE [q |-> q, processed |-> processedTransactions, sent |-> sent]

\* POST /telegram-notify arrives
TelegramNotify(r, h, body) ==
    /\ CanReceive(r)
    /\ nreq' = nreq + 1
    /\ NotifyStep(r, Handle(After(Arrive("telegram-notify", h, body, TRUE))))
    /\ UNCHANGED <<tenantsFile, chain, adminResp, switched, envAdminKey, balance, transfers>>

\* trx.getTransaction resolves (line 546)
LookupReturns(r) ==
    /\ req[r].pc = "awaitLookup"
    /\ \E tx \in ChainAnswers(chain[req[r].body.transactionId]) :
          IF VerificationFailed(tx)
          THEN NotifyStep(r,
                 [q |-> NotifyAnswer([req[r] EXCEPT !.lookup = LookupAnswer(tx)],
                          "Transaction not successful, notification skipped",
                          "false", FALSE),
                  processed |-> processedTransactions, sent |-> sent])
          ELSE NotifyStep(r, DedupAndDispatch([req[r] EXCEPT !.lookup = LookupAnswer(tx)],
                                              processedTransactions, sent))
    /\ UNCHANGED <<tenantsFile, chain, nreq, adminResp, switched, envAdminKey, balance, transfers>>

\* A lookup error that reaches the outer catch (lines 613-620)
LookupThrows_Fails(r) ==
    /\ req[r].pc = "awaitLookup"
    /\ NotifyStep(r,
          [q |-> Respond([req[r] EXCEPT !.lookup = LookupError], 500,
                         "Failed to send Telegram notification", ""),
           processed |-> processedTransactions, sent |-> sent])
    /\ UNCHANGED <<tenantsFile, chain, nreq, adminResp, switched, envAdminKey, balance, transfers>>

\* trx.getTransaction rejects: the catch of lines 556-559 logs and goes on
LookupThrows(r) ==
    /\ req[r].pc = "awaitLookup"
    /\ NotifyStep(r, DedupAndDispatch([req[r] EXCEPT !.lookup = LookupError],
                                      processedTransactions, sent))
    /\ UNCHANGED <<tenantsFile, chain, nreq, adminResp, switched, envAdminKey, balance, transfers>>

TransportOutcomes == {"ok", "notOk", "throw"}

\* A transport error that reaches the outer catch of the route
TelegramReturns_ThrowFails(r, outcome) ==
    /\ req[r].pc = "awaitTelegram"
    /\ LET q == [req[r] EXCEPT !.outcome = outcome]
       IN  IF outcome = "throw"
           THEN NotifyStep(r,
                  [q |-> Respond(q, 500, "Failed to send Telegram notification", ""),
                   processed |-> processedTransactions, sent |-> sent])
           ELSE NotifyStep(r,
                  [q |-> NotifyAnswer(q, "Telegram notification sent",
                                      IF outcome = "ok" THEN "true" ELSE "false",
                                      FALSE),
                   processed |-> [processedTransactions EXCEPT ![q.domain] =
                                     MarkProcessed(@, q.body.transactionId)],
                   sent |-> sent])
    /\ UNCHANGED <<tenantsFile, chain, nreq, adminResp, switched, envAdminKey, balance, transfers>>

\* axios.post of sendApprovalNotification settles: response.data.ok, another
\* response, or a rejection that the catch of the function turns into false
\* (lines 308-324); then lines 589-597
TelegramReturns(r, outcome) ==
    /\ req[r].pc = "awaitTelegram"
    /\ LET q == [req[r] EXCEPT !.outcome = outcome]
           notified == IF outcome = "ok" THEN "true" ELSE "false"
       IN  NotifyStep(r,
             [q |-> NotifyAnswer(q, "Telegram notification sent", notified, FALSE),
              processed |-> [processedTransactions EXCEPT ![q.domain] =
                                MarkProcessed(@, q.body.transactionId)],
              sent |-> sent])
    /\ UNCHANGED <<tenantsFile, chain, nreq, adminResp, switched, envAdminKey, balance, transfers>>

\* The transaction is confirmed on chain with a result
ChainConfirm(t, result) ==
    /\ chain[t] = "pending"
    /\ chain' = [chain EXCEPT ![t] = result]
    /\ last' = IdleRequest
    /\ UNCHANGED <<tenantsFile, processedTransactions, req, sent, returned,
                   returnedChecked, nreq, adminResp, switched, envAdminKey, balance,
                   transfers>>

(***************************************************************************)
(* Routes without a suspension point                                       *)
(***************************************************************************)
VerifyShape(q, status, authorized, enabled, error) ==
    [Respond(q, status, error, "") EXCEPT !.authorized = authorized,
                                          !.enabled = enabled]

\* Lines 368-411 for a request the cross-origin policy let through
VerifyAnswer(q, lookup) ==
    IF q.pc = "done" THEN q
    ELSE IF q.domain = EMPTY
    THEN VerifyShape(q, 200, "false", "false", "Domain not found in request headers")
    ELSE IF Truthy(lookup) /\ lookup.rec.enabled # "false"
    THEN VerifyShape(q, 200, "true", "true", "")
    ELSE IF Truthy(lookup)
    THEN VerifyShape(q, 403, "true", "false", "Domain disabled")
    ELSE VerifyShape(q, 403, "false", "false", "Unauthorized domain")

\* A route that answers from the tenants as they were when the server started
VerifyDomain_Startup(h) ==
    /\ nreq < MaxRequests
    /\ nreq' = nreq + 1
    /\ last' = VerifyAnswer(Arrive("verify-domain", h, NoBody, FALSE),
                            TenantLookup(loadTenants(InitialTenantsFile),
                                         extractDomain(h)))
    /\ UNCHANGED <<tenantsFile, processedTransactions, chain, req, sent,
                   returned, returnedChecked, adminResp, switched, envAdminKey, balance,
                   transfers>>

\* GET /verify-domain (lines 365-412); the route is not behind tenantMiddleware
VerifyDomain(h) ==
    /\ nreq < MaxRequests
    /\ nreq' = nreq + 1
    /\ last' = VerifyAnswer(Arrive("verify-domain", h, NoBody, FALSE),
                            TenantLookup(loadTenants(tenantsFile), extractDomain(h)))
    /\ UNCHANGED <<tenantsFile, processedTransactions, chain, req, sent,
                   returned, returnedChecked, adminResp, switched, envAdminKey, balance,
                   transfers>>

ServerInfoAnswer(q) ==
    IF q.admitted
    THEN [Respond(q, 200, "", "") EXCEPT !.serverAddress = q.tenant.tronAddress]
    ELSE q

\* GET /server-info (lines 659-673)
ServerInfo(h) ==
    /\ nreq < MaxRequests
    /\ nreq' = nreq + 1
    /\ last' = ServerInfoAnswer(Arrive("server-info", h, NoBody, TRUE))
    /\ UNCHANGED <<tenantsFile, processedTransactions, chain, req, sent,
                   returned, returnedChecked, adminResp, switched, envAdminKey, balance,
                   transfers>>

(***************************************************************************)
(* FundingOrchestrator: POST /send-trx                                     *)
(***************************************************************************)
\* TronWeb.isAddress(userAddress)
isAddress(a) == a \in Addresses /\ a # ""

\* validateRequest(req, res, next) (lines 331-349) for a request the gate
\* admitted, then the handler up to its first await (lines 449-458)
validateRequest(q, userAddress) ==
    IF ~q.admitted THEN q
    ELSE IF userAddress = ""
    THEN Respond(q, 400, "User address is required", "")
    ELSE IF ~isAddress(userAddress)
    THEN Respond(q, 400, "Invalid TRON address", "")
    ELSE [q EXCEPT !.pc = "awaitBalance", !.userAddress = userAddress]

\* A step of a /send-trx request that leaves the blockchain as it is
FundingFrame ==
    UNCHANGED <<tenantsFile, processedTransactions, chain, sent, returned,
                returnedChecked, nreq, adminResp, switched, envAdminKey, balance, transfers>>

\* POST /send-trx arrives
SendTrx(r, h, userAddress) ==
    /\ CanReceive(r)
    /\ nreq' = nreq + 1
    /\ Settle(r, validateRequest(Arrive("send-trx", h, NoBody, TRUE), userAddress))
    /\ UNCHANGED <<tenantsFile, processedTransactions, chain, sent, returned,
                   returnedChecked, adminResp, switched, envAdminKey, balance, transfers>>

\* A test that leaves out the threshold itself
AtLeast_Strict(x, n) == x.trx > n \/ (x.trx = n /\ x.micro > 0)

\* balanceInTRX >= tenant.minimumBalance (line 461): a decimal amount against
\* a whole number
AtLeast(x, n) == x.trx >= n

\* A test on the balance rounded up to whole TRX
Below_RoundedUp(x, n) == x.trx + (IF x.micro > 0 THEN 1 ELSE 0) < n

\* serverBalanceInTRX < tenant.autoSendAmount (line 474)
Below(x, n) == x.trx < n

\* Lines 459-468, once the target's balance is read
AfterBalance(q) ==
    IF AtLeast(fromSun(q.balanceRead), q.tenant.minimumBalance)
    THEN [Respond(q, 200, "", "User already has sufficient balance")
             EXCEPT !.balance = fromSun(q.balanceRead), !.sent = "false"]
    ELSE [q EXCEPT !.pc = "awaitWallet"]

\* A balance read that waits while another request for the same tenant and
\* target is between its balance check and its broadcast
BalanceReturns_Exclusive(r) ==
    /\ req[r].pc = "awaitBalance"
    /\ \A r2 \in Slots \ {r} :
          ~(/\ req[r2].pc \in {"awaitWallet", "awaitBuild", "awaitSign",
                                "awaitBroadcast"}
            /\ req[r2].domain = req[r].domain
            /\ req[r2].userAddress = req[r].userAddress)
    /\ Settle(r, AfterBalance([req[r] EXCEPT
                     !.balanceRead = balance[req[r].userAddress]]))
    /\ FundingFrame

\* tenantTronWeb.trx.getBalance(userAddress) resolves (line 458)
BalanceReturns(r) ==
    /\ req[r].pc = "awaitBalance"
    /\ Settle(r, AfterBalance([req[r] EXCEPT
                     !.balanceRead = balance[req[r].userAddress]]))
    /\ FundingFrame

\* Lines 472-481, once the tenant wallet's balance is read
AfterWallet(q) ==
    IF Below(fromSun(q.walletRead), q.tenant.autoSendAmount)
    THEN [Respond(q, 500, "Server has insufficient funds", "")
             EXCEPT !.serverBalance = fromSun(q.walletRead),
                    !.required = q.tenant.autoSendAmount]
    ELSE [q EXCEPT !.pc = "awaitBuild"]

\* tenantTronWeb.trx.getBalance(tenant.tronAddress) resolves (line 471)
WalletReturns(r) ==
    /\ req[r].pc = "awaitWallet"
    /\ Settle(r, AfterWallet([req[r] EXCEPT
                     !.walletRead = balance[req[r].tenant.tronAddress]]))
    /\ FundingFrame

\* transactionBuilder.sendTrx resolves (lines 485-489); trx.sign is called
BuildReturns(r) ==
    /\ req[r].pc = "awaitBuild"
    /\ Settle(r, [req[r] EXCEPT !.pc = "awaitSign"])
    /\ FundingFrame

\* trx.sign resolves (line 491); trx.sendRawTransaction is called (line 492)
SignReturns(r) ==
    /\ req[r].pc = "awaitSign"
    /\ Settle(r, [req[r] EXCEPT !.pc = "awaitBroadcast", !.signed = TRUE,
                                !.submitted = @ + 1])
    /\ FundingFrame

\* The transfer a request builds (lines 485-489), with the id the
\* blockchain gives it
Transfer(q, id) ==
    [txid |-> id, domain |-> q.domain, from |-> q.tenant.tronAddress,
     to |-> q.userAddress, amount |-> toSun(q.tenant.autoSendAmount)]

\* The blockchain executes a transfer
Apply(bal, t) ==
    [bal EXCEPT ![t.from] = @ - t.amount, ![t.to] = @ + t.amount]

\* The blockchain accepts a transfer only from a wallet that holds the amount
CanPay(q) == balance[q.tenant.tronAddress] >= toSun(q.tenant.autoSendAmount)

\* A response that depends on the delivery of the notification
SuccessAnswer_IfDelivered(q, topUp) ==
    IF topUp \in {"ok", "skipped"}
    THEN [Respond(q, 200, "", "Sent TRX successfully")
             EXCEPT !.sent = "true", !.amount = q.tenant.autoSendAmount,
                    !.recipient = q.userAddress, !.topUp = topUp]
    ELSE Respond([q EXCEPT !.topUp = topUp], 500, "Failed to send TRX",
                 "notification failed")

\* Lines 503-510: the success response
SuccessAnswer(q, topUp) ==
    [Respond(q, 200, "", "Sent TRX successfully")
        EXCEPT !.sent = "true", !.amount = q.tenant.autoSendAmount,
               !.recipient = q.userAddress, !.topUp = topUp]

\* Lines 494-501: sendTopUpNotification up to its axios.post; without chat
\* credentials it returns false at once (lines 239-242)
Accepted(q) ==
    IF TelegramConfigured(q.tenant)
    THEN [q EXCEPT !.pc = "awaitTopUp", !.topUp = "called"]
    ELSE SuccessAnswer(q, "skipped")

\* A refusal after which the broadcast is submitted again
Refused_Retry(q) == [q EXCEPT !.broadcast = "refused", !.submitted = @ + 1]

\* A refusal whose Error is not caught: the request is never answered
Refused_NoAnswer(q) == [q EXCEPT !.broadcast = "refused", !.pc = "abandoned"]

\* A refusal that is taken for a success
Refused_AsSuccess(q) == Accepted([q EXCEPT !.broadcast = "refused"])

\* Lines 511-520: result.result is not true, Error('Transaction failed') is
\* thrown and caught
Refused(q) ==
    Respond([q EXCEPT !.broadcast = "refused"], 500, "Failed to send TRX",
            "Transaction failed")

\* trx.sendRawTransaction resolves (lines 492-513): result.result is true
\* (accepted) or not
BroadcastReturns(r, accepted) ==
    /\ req[r].pc = "awaitBroadcast"
    /\ accepted => CanPay(req[r])
    /\ IF accepted
       THEN /\ transfers' = Append(transfers, Transfer(req[r], Len(transfers) + 1))
            /\ balance' = Apply(balance, Transfer(req[r], Len(transfers) + 1))
            /\ Settle(r, Accepted([req[r] EXCEPT !.txid = Len(transfers) + 1,
                                                 !.broadcast = "accepted"]))
       ELSE /\ Settle(r, Refused(req[r]))
            /\ UNCHANGED <<balance, transfers>>
    /\ UNCHANGED <<tenantsFile, processedTransactions, chain, sent, returned,
                   returnedChecked, nreq, adminResp, switched, envAdminKey>>

\* The awaits of the handler on the blockchain collaborator
CollaboratorCalls ==
    {"awaitBalance", "awaitWallet", "awaitBuild", "awaitSign", "awaitBroadcast"}

\* A call to the blockchain collaborator rejects (error or timeout): the
\* catch of lines 515-520.  A broadcast whose answer is lost may still have
\* landed on the chain.
FundingThrows(r, landed) ==
    /\ req[r].pc \in CollaboratorCalls
    /\ landed => (req[r].pc = "awaitBroadcast" /\ CanPay(req[r]))
    /\ Settle(r, Respond([req[r] EXCEPT !.broadcast =
                                IF req[r].pc = "awaitBroadcast" THEN "threw" ELSE @],
                         500, "Failed to send TRX", "collaborator error"))
    /\ IF landed
       THEN /\ transfers' = Append(transfers, Transfer(req[r], Len(transfers) + 1))
            /\ balance' = Apply(balance, Transfer(req[r], Len(transfers) + 1))
       ELSE UNCHANGED <<balance, transfers>>
    /\ UNCHANGED <<tenantsFile, processedTransactions, chain, sent, returned,
                   returnedChecked, nreq, adminResp, switched, envAdminKey>>

\* axios.post of sendTopUpNotification settles (lines 252-269): whatever the
\* outcome, lines 503-510 follow
TopUpReturns(r, outcome) ==
    /\ req[r].pc = "awaitTopUp"
    /\ Settle(r, SuccessAnswer(req[r], outcome))
    /\ FundingFrame

(***************************************************************************)
(* POST /check-balance and POST /transaction-status                        *)
(***************************************************************************)
\* Lines 416-426: the handler of /check-balance up to its await, for a
\* request that passed the gate and validateRequest
CheckBalanceStart(q) ==
    IF q.pc = "awaitBalance" THEN [q EXCEPT !.pc = "awaitCheckBalance"] ELSE q

\* POST /check-balance arrives
CheckBalance(r, h, userAddress) ==
    /\ CanReceive(r)
    /\ nreq' = nreq + 1
    /\ Settle(r, CheckBalanceStart(
                    validateRequest(Arrive("check-balance", h, NoBody, TRUE),
                                    userAddress)))
    /\ UNCHANGED <<tenantsFile, processedTransactions, chain, sent, returned,
                   returnedChecked, adminResp, switched, envAdminKey, balance,
                   transfers>>

\* trx.getBalance resolves (lines 426-435) or rejects (lines 437-444)
CheckBalanceReturns(r, ok) ==
    /\ req[r].pc = "awaitCheckBalance"
    /\ Settle(r, IF ok
                 THEN [Respond(req[r], 200, "", "") EXCEPT
                          !.balanceRead = balance[req[r].userAddress],
                          !.balance = fromSun(balance[req[r].userAddress])]
                 ELSE Respond(req[r], 500, "Failed to check balance",
                              "collaborator error"))
    /\ FundingFrame

\* Lines 625-637: the handler of /transaction-status up to its await
StatusStart(q) ==
    IF ~q.admitted THEN q
    ELSE IF q.body.transactionId = NoTx
    THEN Respond(q, 400, "Transaction ID is required", "")
    ELSE [q EXCEPT !.pc = "awaitStatus"]

\* POST /transaction-status arrives
TransactionStatus(r, h, transactionId) ==
    /\ CanReceive(r)
    /\ nreq' = nreq + 1
    /\ Settle(r, StatusStart(Arrive("transaction-status", h,
                                    Body("", "absent", transactionId), TRUE)))
    /\ UNCHANGED <<tenantsFile, processedTransactions, chain, sent, returned,
                   returnedChecked, adminResp, switched, envAdminKey, balance,
                   transfers>>

\* Lines 640-646 for the answer of trx.getTransaction; reading .ret of an
\* answer that is no object throws, and the catch of lines 648-655 follows
StatusAnswer(q, tx) ==
    IF tx.exists
    THEN Respond([q EXCEPT !.lookup = LookupAnswer(tx)], 200, "", "")
    ELSE Respond([q EXCEPT !.lookup = LookupAnswer(tx)], 500,
                 "Failed to get transaction status", "")

\* trx.getTransaction resolves
StatusReturns(r) ==
    /\ req[r].pc = "awaitStatus"
    /\ \E tx \in ChainAnswers(chain[req[r].body.transactionId]) :
          Settle(r, StatusAnswer(req[r], tx))
    /\ FundingFrame

\* trx.getTransaction rejects: the catch of lines 648-655
StatusThrows(r) ==
    /\ req[r].pc = "awaitStatus"
    /\ Settle(r, Respond([req[r] EXCEPT !.lookup = LookupError], 500,
                         "Failed to get transaction status", "collaborator error"))
    /\ FundingFrame

(***************************************************************************)
(* Administrative endpoints                                                *)
(***************************************************************************)
\* A credential that is accepted as soon as one is given
Authorized_AnyKey(adminKey) == adminKey # ""

\* adminKey !== process.env.ADMIN_KEY (lines 682, 755, 795), negated
Authorized(adminKey) == adminKey = envAdminKey

\* The shared body of toggle-, enable- and disable-domain: lines 795-845 with
\* the flag to store; validEnabled is typeof enabled === 'boolean'
SetEnabled(adminKey, domain, validEnabled, enabled, saveOk) ==
    LET tenants == loadTenants(tenantsFile)
    IN  IF ~Authorized(adminKey)
        THEN /\ adminResp' = Asked(adminKey, domain, AdminAnswer(401, "Unauthorized"))
             /\ UNCHANGED <<tenantsFile, switched>>
        ELSE IF domain = EMPTY
        THEN /\ adminResp' = Asked(adminKey, domain, AdminAnswer(400, "Missing domain"))
             /\ UNCHANGED <<tenantsFile, switched>>
        ELSE IF ~validEnabled
        THEN /\ adminResp' = Asked(adminKey, domain, AdminAnswer(400, "Invalid enabled value"))
             /\ UNCHANGED <<tenantsFile, switched>>
        ELSE IF ~Truthy(TenantLookup(tenants, domain))
        THEN /\ adminResp' = Asked(adminKey, domain, AdminAnswer(404, "Domain not found"))
             /\ UNCHANGED <<tenantsFile, switched>>
        ELSE IF saveOk
        THEN /\ adminResp' = Asked(adminKey, domain, AdminAnswer(200, ""))
             /\ tenantsFile' = [tenants EXCEPT ![domain].enabled = enabled]
             /\ switched' = [switched EXCEPT ![domain] = enabled]
        ELSE /\ adminResp' = Asked(adminKey, domain,
                                   AdminAnswer(500, "Failed to save tenant configuration"))
             /\ UNCHANGED <<tenantsFile, switched>>

AdminFrame ==
    /\ nreq < MaxRequests
    /\ nreq' = nreq + 1
    /\ last' = IdleRequest
    /\ UNCHANGED <<processedTransactions, chain, req, sent, returned,
                   returnedChecked, balance, transfers, envAdminKey>>

\* tenants[domain] = record
Put(tenants, domain, record) ==
    [d \in (DOMAIN tenants) \cup {domain} |->
        IF d = domain THEN record ELSE tenants[d]]

\* The record POST /admin/add-tenant stores (lines 717-726) for a request
\* without chat fields and amounts: no tronPrivateKey, the default amounts
NewTenant(tronAddress) == TenantRecord(tronAddress, "", "", "", 13, 11, "true")

\* A handler that writes the record into the file as it was at start-up
AddTenantOutcome_Stale(adminKey, domain, tronPrivateKey, tronAddress, saveOk, file) ==
    IF ~Authorized(adminKey)
    THEN [resp |-> AdminAnswer(401, "Unauthorized"), file |-> file]
    ELSE IF domain = EMPTY \/ tronAddress = ""
    THEN [resp |-> AdminAnswer(400, "Missing required fields"), file |-> file]
    ELSE IF EnvLookup(EnvKeyName(domain)) = "" /\ tronPrivateKey = ""
    THEN [resp |-> AdminAnswer(400, "Missing private key"), file |-> file]
    ELSE IF saveOk
    THEN [resp |-> AdminAnswer(200, ""),
          file |-> Put(loadTenants(InitialTenantsFile), domain, NewTenant(tronAddress))]
    ELSE [resp |-> AdminAnswer(500, "Failed to save tenant configuration"),
          file |-> file]

\* POST /admin/add-tenant (lines 676-749): its response and the file it
\* leaves
AddTenantOutcome(adminKey, domain, tronPrivateKey, tronAddress, saveOk, file) ==
    IF ~Authorized(adminKey)
    THEN [resp |-> AdminAnswer(401, "Unauthorized"), file |-> file]
    ELSE IF domain = EMPTY \/ tronAddress = ""
    THEN [resp |-> AdminAnswer(400, "Missing required fields"), file |-> file]
    ELSE IF EnvLookup(EnvKeyName(domain)) = "" /\ tronPrivateKey = ""
    THEN [resp |-> AdminAnswer(400, "Missing private key"), file |-> file]
    ELSE IF saveOk
    THEN [resp |-> AdminAnswer(200, ""),
          file |-> Put(loadTenants(file), domain, NewTenant(tronAddress))]
    ELSE [resp |-> AdminAnswer(500, "Failed to save tenant configuration"),
          file |-> file]

\* The state after POST /admin/add-tenant
AddTenantStep(adminKey, domain, tronPrivateKey, outcome) ==
    /\ adminResp' = [Asked(adminKey, domain, outcome.resp) EXCEPT
                        !.endpoint = "add-tenant",
                        !.tronPrivateKey = tronPrivateKey]
    /\ tenantsFile' = outcome.file
    /\ switched' = IF outcome.resp.status = 200
                   THEN [switched EXCEPT ![domain] = "true"]
                   ELSE switched

AdminAddTenant(adminKey, domain, tronPrivateKey, tronAddress, saveOk) ==
    /\ AdminFrame
    /\ AddTenantStep(adminKey, domain, tronPrivateKey,
                     AddTenantOutcome(adminKey, domain, tronPrivateKey,
                                      tronAddress, saveOk, tenantsFile))

\* One entry of the list of GET /admin/tenants (lines 764-771)
ListEntry(domain, record) ==
    [domain |-> domain, tronAddress |-> record.tronAddress,
     telegramConfigured |-> TelegramConfigured(record),
     autoSendAmount |-> record.autoSendAmount,
     minimumBalance |-> record.minimumBalance,
     enabled |-> record.enabled # "false"]

TenantList(tenants) == {ListEntry(d, tenants[d]) : d \in DOMAIN tenants}

\* GET /admin/tenants (lines 751-787)
AdminTenants(adminKey) ==
    /\ AdminFrame
    /\ adminResp' =
          [Asked(adminKey, EMPTY,
                 IF Authorized(adminKey) THEN AdminAnswer(200, "")
                 ELSE AdminAnswer(401, "Unauthorized"))
             EXCEPT !.endpoint = "tenants",
                    !.tenants = IF Authorized(adminKey)
                                THEN TenantList(loadTenants(tenantsFile))
                                ELSE {}]
    /\ UNCHANGED <<tenantsFile, switched>>

\* POST /admin/toggle-domain (lines 790-855); enabled is "true", "false" or,
\* for a value that is not a boolean, "other"
AdminToggleDomain(adminKey, domain, enabled, saveOk) ==
    /\ AdminFrame
    /\ SetEnabled(adminKey, domain, enabled \in {"true", "false"}, enabled, saveOk)

\* POST /admin/enable-domain (lines 858-913)
AdminEnableDomain(adminKey, domain, saveOk) ==
    /\ AdminFrame
    /\ SetEnabled(adminKey, domain, TRUE, "true", saveOk)

\* POST /admin/disable-domain (lines 916-971)
AdminDisableDomain(adminKey, domain, saveOk) ==
    /\ AdminFrame
    /\ SetEnabled(adminKey, domain, TRUE, "false", saveOk)

(***************************************************************************)
(* Inputs and specifications                                               *)
(***************************************************************************)
\* A browser on a tenant's site: Origin is the site, Host is this server
FromSite(d) == Hdr(Url("https", d), API_HOST, NoUrl)

ApprovedValues == {"true", "false", "'false'", "absent"}

NotifyHeaders == {FromSite(A_COM), FromSite(B_COM)}

NotifyBodies ==
    {Body("transaction_approve", a, t) :
        a \in ApprovedValues, t \in {NoTx} \cup TxIds}
    \cup {Body("wallet_connect", "true", "T1"), Body("price_alert", "true", "T1")}

AdminKeys == {ADMIN_KEY, "wrongKey", ""}

AdminDomains == {A_COM, B_COM, EVIL_COM, EMPTY}

Process(r) ==
    \/ LookupReturns(r)
    \/ LookupThrows(r)
    \/ \E o \in TransportOutcomes : TelegramReturns(r, o)

Chain == \E t \in TxIds, result \in {"SUCCESS", "REVERT"} : ChainConfirm(t, result)

\* The notification route under concurrent requests from the tenants' sites
NextNotify ==
    \/ \E r \in Slots, h \in NotifyHeaders, b \in NotifyBodies : TelegramNotify(r, h, b)
    \/ \E r \in Slots : Process(r)
    \/ Chain

SpecNotify == Init /\ [][NextNotify]_vars

\* Headers a client can send: a site's browser, a client without Origin that
\* names a host, a port, a name every object inherits, nothing at all, only a
\* Referer, a foreign site, an Origin that is no URL
GateHeaders ==
    {FromSite(A_COM), FromSite(B_COM), FromSite(D_COM),
     Hdr(NoUrl, A_COM_PORT, NoUrl),
     Hdr(NoUrl, API_HOST, NoUrl),
     Hdr(NoUrl, CONSTRUCTOR, NoUrl),
     Hdr(NoUrl, EMPTY, NoUrl),
     Hdr(NoUrl, WWW_DOT, NoUrl),
     Hdr(NoUrl, EMPTY, Url("https", WWW_A_COM)),
     Hdr(Url("https", EVIL_COM), API_HOST, NoUrl),
     Hdr(Malformed, A_COM, NoUrl),
     FromSite(N_COM),
     Hdr(NoUrl, B_COM, NoUrl),
     Hdr(NoUrl, XWWW_COM, NoUrl),
     Hdr(NoUrl, WWW_XWWW_COM, NoUrl),
     Hdr(NoUrl, WWW_DOT, Url("https", A_COM))}

GateBodies == {Body("transaction_approve", "true", NoTx)}

Admin ==
    \/ \E k \in AdminKeys, d \in AdminDomains, e \in {"true", "false", "other"},
          ok \in BOOLEAN : AdminToggleDomain(k, d, e, ok)
    \/ \E k \in AdminKeys, d \in AdminDomains, ok \in BOOLEAN :
          AdminEnableDomain(k, d, ok)
    \/ \E k \in AdminKeys, d \in AdminDomains, ok \in BOOLEAN :
          AdminDisableDomain(k, d, ok)

\* What the operator's client sends to POST /admin/add-tenant
AddKeys == {"", "bodyKey"}

AddAddresses == {"TN", ""}

AdminStoreDomains == {A_COM, B_COM, EVIL_COM, WWW_A_COM, EMPTY}

InfoHeaders == {FromSite(A_COM), FromSite(B_COM), FromSite(EVIL_COM)}

\* The administrative endpoints, with tenants' sites reading /server-info
NextAdmin ==
    \/ \E k \in AdminKeys, d \in AddDomains, p \in AddKeys, a \in AddAddresses,
          ok \in BOOLEAN : AdminAddTenant(k, d, p, a, ok)
    \/ \E k \in AdminKeys : AdminTenants(k)
    \/ \E k \in AdminKeys, d \in AdminStoreDomains, e \in {"true", "false", "other"},
          ok \in BOOLEAN : AdminToggleDomain(k, d, e, ok)
    \/ \E k \in AdminKeys, d \in AdminStoreDomains, ok \in BOOLEAN :
          AdminEnableDomain(k, d, ok)
    \/ \E k \in AdminKeys, d \in AdminStoreDomains, ok \in BOOLEAN :
          AdminDisableDomain(k, d, ok)
    \/ \E h \in InfoHeaders : ServerInfo(h)

SpecAdmin == Init /\ [][NextAdmin]_vars

\* A process started without ADMIN_KEY in its environment
InitNoAdminKey ==
    /\ tenantsFile = InitialTenantsFile
    /\ envAdminKey = Undefined
    /\ InitRequests
    /\ balance = [a \in Addresses |-> toSun(40)]

\* What a client can send as adminKey, the field left out included
SentAdminKeys == AdminKeys \cup {Undefined}

\* The administrative endpoints under any adminKey or none
NextNoAdminKey ==
    \/ \E k \in SentAdminKeys, d \in AddDomains, p \in AddKeys, a \in AddAddresses,
          ok \in BOOLEAN : AdminAddTenant(k, d, p, a, ok)
    \/ \E k \in SentAdminKeys : AdminTenants(k)
    \/ \E k \in SentAdminKeys, d \in AdminStoreDomains,
          e \in {"true", "false", "other"}, ok \in BOOLEAN :
          AdminToggleDomain(k, d, e, ok)
    \/ \E k \in SentAdminKeys, d \in AdminStoreDomains, ok \in BOOLEAN :
          AdminEnableDomain(k, d, ok)
    \/ \E k \in SentAdminKeys, d \in AdminStoreDomains, ok \in BOOLEAN :
          AdminDisableDomain(k, d, ok)

SpecNoAdminKey == InitNoAdminKey /\ [][NextNoAdminKey]_vars

\* The gate and the verification route under any headers, with the operator
\* switching domains on and off
NextGate ==
    \/ \E h \in GateHeaders : VerifyDomain(h)
    \/ \E h \in GateHeaders : ServerInfo(h)
    \/ \E r \in Slots, h \in GateHeaders, b \in GateBodies : TelegramNotify(r, h, b)
    \/ \E r \in Slots, o \in TransportOutcomes : TelegramReturns(r, o)
    \/ Admin

SpecGate == Init /\ [][NextGate]_vars

FundHeaders == {FromSite(A_COM), FromSite(B_COM)}

UserAddresses == {USER, "notAnAddress", ""}

\* Balances of the target around the threshold of 11 TRX and of tenant a.c's
\* wallet around the amount of 13 TRX
UserBalances == {toSun(11) - 1, toSun(11)}

WalletBalances == {toSun(13) - 1, toSun(13), toSun(26)}

InitFunding ==
    /\ InitStore
    /\ \E u \in UserBalances, w \in WalletBalances :
          balance = [a \in Addresses |->
                        IF a = USER THEN u
                        ELSE IF a = InitialTenantsFile[A_COM].tronAddress THEN w
                        ELSE toSun(26)]

\* The funding route under concurrent requests from the tenants' sites
NextFunding ==
    \/ \E r \in Slots, h \in FundHeaders, a \in UserAddresses : SendTrx(r, h, a)
    \/ \E r \in Slots : BalanceReturns(r)
    \/ \E r \in Slots : WalletReturns(r)
    \/ \E r \in Slots : BuildReturns(r)
    \/ \E r \in Slots : SignReturns(r)
    \/ \E r \in Slots, accepted \in BOOLEAN : BroadcastReturns(r, accepted)
    \/ \E r \in Slots, landed \in BOOLEAN : FundingThrows(r, landed)
    \/ \E r \in Slots, o \in TransportOutcomes : TopUpReturns(r, o)

SpecFunding == InitFunding /\ [][NextFunding]_vars

\* Chat credentials of tenant b.c: none, a bot token only, a channel id only
ChatCredentials == {<<"", "">>, <<"botB", "">>, <<"", "chatB">>}

\* The target is short of funds and the wallets hold two transfers
InitDispatch ==
    /\ \E c \in ChatCredentials :
          tenantsFile = [InitialTenantsFile EXCEPT
                            ![B_COM].telegramBotToken = c[1],
                            ![B_COM].telegramChatId = c[2]]
    /\ envAdminKey = ADMIN_KEY
    /\ InitRequests
    /\ balance = [a \in Addresses |-> IF a = USER THEN toSun(11) - 1 ELSE toSun(26)]

\* Both notification kinds: the funding notification of /send-trx and the
\* approval notification of /telegram-notify, for approvals without an id
NextDispatch ==
    \/ \E r \in Slots, h \in FundHeaders : SendTrx(r, h, USER)
    \/ \E r \in Slots : BalanceReturns(r)
    \/ \E r \in Slots : WalletReturns(r)
    \/ \E r \in Slots : BuildReturns(r)
    \/ \E r \in Slots : SignReturns(r)
    \/ \E r \in Slots, accepted \in BOOLEAN : BroadcastReturns(r, accepted)
    \/ \E r \in Slots, o \in TransportOutcomes : TopUpReturns(r, o)
    \/ \E r \in Slots, h \in FundHeaders :
          TelegramNotify(r, h, Body("transaction_approve", "true", NoTx))
    \/ \E r \in Slots, o \in TransportOutcomes : TelegramReturns(r, o)

SpecDispatch == InitDispatch /\ [][NextDispatch]_vars

\* A tenant's site, a foreign site the cross-origin policy refuses, and a
\* client the gate refuses
ResponseHeaders ==
    {FromSite(A_COM), Hdr(Url("https", EVIL_COM), API_HOST, NoUrl),
     Hdr(NoUrl, API_HOST, NoUrl)}

ResponseBodies ==
    {Body("transaction_approve", "true", "T1"),
     Body("transaction_approve", "false", "T1"),
     Body("price_alert", "true", "T1")}

\* The target is short of funds and the wallets hold two transfers
InitResponses ==
    /\ InitStore
    /\ balance = [a \in Addresses |-> IF a = USER THEN toSun(11) - 1 ELSE toSun(26)]

\* A request is received on one of the four routes
Receive(r) ==
    \/ \E h \in ResponseHeaders, a \in {USER, "notAnAddress"} : SendTrx(r, h, a)
    \/ \E h \in ResponseHeaders, a \in {USER, ""} : CheckBalance(r, h, a)
    \/ \E h \in ResponseHeaders, t \in {NoTx} \cup TxIds : TransactionStatus(r, h, t)
    \/ \E h \in ResponseHeaders, b \in ResponseBodies : TelegramNotify(r, h, b)

\* A call of the request in slot r to the blockchain or the chat
\* collaborator returns or raises
Returns(r) ==
    \/ BalanceReturns(r)
    \/ WalletReturns(r)
    \/ BuildReturns(r)
    \/ SignReturns(r)
    \/ \E accepted \in BOOLEAN : BroadcastReturns(r, accepted)
    \/ FundingThrows(r, FALSE)
    \/ \E o \in TransportOutcomes : TopUpReturns(r, o)
    \/ \E ok \in BOOLEAN : CheckBalanceReturns(r, ok)
    \/ StatusReturns(r)
    \/ StatusThrows(r)
    \/ LookupReturns(r)
    \/ LookupThrows(r)
    \/ \E o \in TransportOutcomes : TelegramReturns(r, o)

NextResponses ==
    \/ \E r \in Slots : Receive(r)
    \/ \E r \in Slots : Returns(r)

\* Every call to a collaborator eventually returns or raises
SpecResponses ==
    /\ InitResponses
    /\ [][NextResponses]_vars
    /\ \A r \in Slots : WF_vars(Returns(r))

(***************************************************************************)
(* Properties                                                              *)
(***************************************************************************)
\* The requests a step acted on: the one it answered, and the ones it left
\* suspended in a slot
Acted ==
    (IF last'.pc = "done" THEN {last'} ELSE {})
    \cup {req'[r] : r \in {x \in Slots : req'[x] # req[x] /\ req'[x].pc # "idle"}}

\* The requests visible in a state
Visible ==
    (IF last.pc = "done" THEN {last} ELSE {})
    \cup {req[r] : r \in {x \in Slots : req[x].pc # "idle"}}

IdsOf(processed, d) == IF d \in DOMAIN processed THEN processed[d] ELSE {}

SameIds ==
    \A d \in DOMAIN tenantsFile :
        IdsOf(processedTransactions', d) = IdsOf(processedTransactions, d)

ApproveCall(q) ==
    /\ q.endpoint = "telegram-notify"
    /\ q.admitted
    /\ q.body.type = "transaction_approve"

ReportsSuccess(tx) ==
    /\ tx.exists
    /\ tx.hasRet
    /\ tx.retLen > 0
    /\ tx.contractRet = "SUCCESS"

\* C1: for a fixed (domain, transaction id) with a present id, the chat
\* transport is called at most once, and two requests for the same id are
\* never both waiting for the transport.
C1_ExactlyOneDispatch ==
    /\ \A k \in SentKeys : k[2] # NoTx => sent[k] <= 1
    /\ \A r1, r2 \in Slots :
          (/\ r1 # r2
           /\ req[r1].pc = "awaitTelegram"
           /\ req[r2].pc = "awaitTelegram"
           /\ req[r1].domain = req[r2].domain
           /\ req[r1].body.transactionId # NoTx)
          => req[r1].body.transactionId # req[r2].body.transactionId

\* C2 as stated: once an approval call with approved=true and id T has been
\* answered for a domain, every call that arrives later for that domain and T
\* and reaches the dedup check is answered duplicate=true,
\* notificationSent=false, without a call to the chat transport.
C2_AfterAnyAnswer ==
    \A q \in Visible :
        (ApproveCall(q) /\ q.reachedDedup /\ q.afterReturned)
        => /\ q.pc = "done"
           /\ q.duplicate
           /\ q.notificationSent = "false"
           /\ ~q.transport

\* C2 as amended: the same, once an approval call with approved=true and id T
\* has been answered after it passed the on-chain check (it reached the dedup
\* check itself).
C2_AfterCheckedAnswer ==
    \A q \in Visible :
        (ApproveCall(q) /\ q.reachedDedup /\ q.afterChecked)
        => /\ q.pc = "done"
           /\ q.status = 200
           /\ q.duplicate
           /\ q.notificationSent = "false"
           /\ ~q.transport

C2_Witness ==
    /\ last.pc = "done"
    /\ ApproveCall(last)
    /\ last.afterChecked
    /\ last.reachedDedup
    /\ last.duplicate

AbsentIdCall(q) ==
    /\ ApproveCall(q)
    /\ q.body.approved \notin {"false", "'false'"}
    /\ q.body.transactionId = NoTx

C4_NeverWhenApprovedFalse ==
    [][\A q \in Acted :
          (q.endpoint = "telegram-notify" /\ q.body.approved = "false")
          => /\ q.pc = "done"
             /\ ~q.attempted
             /\ ~q.transport
             /\ q.lookup = NoLookup
             /\ processedTransactions' = processedTransactions
             /\ sent' = sent]_vars

C4_Witness ==
    /\ last.pc = "done"
    /\ ApproveCall(last)
    /\ last.body.approved = "false"
    /\ last.body.transactionId # NoTx
    /\ chain[last.body.transactionId] = "SUCCESS"
    /\ last.body.transactionId \notin IdsOf(processedTransactions, last.domain)
    /\ last.notificationSent = "false"

\* C5: the chat transport is called for an approval only when the request
\* carried approved = true.
C5_OnlyWhenApprovedTrue ==
    \A q \in Visible :
        (q.endpoint = "telegram-notify" /\ q.transport) => q.body.approved = "true"

\* C6: when the lookup answers without error and the answer does not report
\* SUCCESS, the request is answered at once with success and
\* notificationSent=false, the dispatcher is not reached and the processed
\* map and the transport are untouched.
C6_SkippedWhenNotSuccessful ==
    [][\A q \in Acted :
          (q.lookup.kind = "returned" /\ ~ReportsSuccess(q.lookup.tx))
          => /\ q.pc = "done"
             /\ q.status = 200
             /\ q.notificationSent = "false"
             /\ ~q.duplicate
             /\ ~q.reachedDedup
             /\ ~q.attempted
             /\ ~q.transport
             /\ processedTransactions' = processedTransactions
             /\ sent' = sent]_vars

C6_Witness ==
    /\ last.pc = "done"
    /\ last.lookup.kind = "returned"
    /\ last.lookup.tx.exists
    /\ last.lookup.tx.hasRet
    /\ last.lookup.tx.retLen = 0
    /\ last.notificationSent = "false"

GatedEndpoints == {"telegram-notify", "server-info"}

NoGatedOperation(q) ==
    /\ q.pc = "done"
    /\ ~q.admitted
    /\ ~q.reachedDedup
    /\ ~q.attempted
    /\ ~q.transport
    /\ q.lookup = NoLookup

\* C8: a request to a gated route that the cross-origin policy let through is
\* answered 403 "Domain not detected" when no domain resolves and 403
\* "Domain not authorized" when the resolved domain is not a key of
\* tenants.json, in both cases before any gated operation.
C8_GateRejectsUnknownDomain ==
    \A q \in Visible :
        (q.endpoint \in GatedEndpoints /\ q.corsPassed /\ ~q.ownTenant)
        => /\ NoGatedOperation(q)
           /\ q.status = 403
           /\ q.error = IF q.domain = EMPTY THEN "Domain not detected"
                        ELSE "Domain not authorized"

\* C9: a request to a gated route that resolves to a tenant whose enabled
\* flag is false is rejected, with a reason other than the one for an absent
\* domain, before any gated operation.
C9_GateRejectsDisabled ==
    \A q \in Visible :
        (q.endpoint \in GatedEndpoints /\ q.corsPassed /\ q.ownTenant
            /\ q.tenantEnabled = "false")
        => /\ NoGatedOperation(q)
           /\ q.status \in {403, 500}
           /\ q.error \notin {"", "Domain not authorized"}

\* C10: GET /verify-domain answers 200 exactly when the resolved domain is a
\* key of tenants.json whose enabled flag is not false, and 403 with the
\* {authorized, enabled} fields otherwise.
C10_VerifyDomainStatus ==
    (last.pc = "done" /\ last.endpoint = "verify-domain" /\ last.corsPassed)
    => /\ last.status = 200 <=> (last.ownTenant /\ last.tenantEnabled # "false")
       /\ last.status \in {200, 403}
       /\ last.authorized \in {"true", "false"}
       /\ last.enabled \in {"true", "false"}

\* C11: once an administrative switch of a domain has answered success, a
\* GET /verify-domain that resolves to that domain answers from the stored
\* flag: after a switch to false it answers authorized=true, enabled=false
\* with a status other than 200, after a switch to true it answers
\* authorized=true, enabled=true with 200; no answer comes from an older
\* state of the tenant.
C11_SwitchTakesEffect ==
    (/\ last.pc = "done"
     /\ last.endpoint = "verify-domain"
     /\ last.corsPassed
     /\ last.domain \in DOMAIN switched)
    => /\ switched[last.domain] = "false"
          => /\ last.authorized = "true"
             /\ last.enabled = "false"
             /\ last.status # 200
       /\ switched[last.domain] = "true"
          => /\ last.authorized = "true"
             /\ last.enabled = "true"
             /\ last.status = 200

C11_Witness ==
    /\ last.pc = "done"
    /\ last.endpoint = "verify-domain"
    /\ last.domain = B_COM
    /\ switched[B_COM] = "false"
    /\ adminResp.status = 200
    /\ last.status = 403
    /\ last.enabled = "false"

\* The tenant record of domain d has no wallet address, or no signing secret
\* in the record and none in the environment
Incomplete(d) ==
    \/ tenantsFile[d].tronAddress = ""
    \/ (tenantsFile[d].tronPrivateKey = "" /\ EnvLookup(EnvKeyName(d)) = "")

\* C12: a request to a gated route that resolves to a tenant lacking the
\* wallet address or the signing secret is answered 500 "Tenant
\* configuration incomplete" (not "Domain not authorized") before any gated
\* operation, and every admitted request carries a tenant with both a wallet
\* address and a signing secret.
C12_RejectsIncompleteTenant ==
    \A q \in Visible :
        /\ (q.endpoint \in GatedEndpoints /\ q.corsPassed /\ q.ownTenant
                /\ Incomplete(q.domain))
           => /\ NoGatedOperation(q)
              /\ q.status = 500
              /\ q.error = "Tenant configuration incomplete"
        /\ q.admitted
           => /\ q.tenant.tronAddress # ""
              /\ q.tenant.tronPrivateKey # ""

C12_Witness ==
    /\ last.pc = "done"
    /\ last.endpoint \in GatedEndpoints
    /\ last.domain = N_COM
    /\ last.ownTenant
    /\ last.status = 500
    /\ last.error = "Tenant configuration incomplete"

\* C13: the signing secret attached to an admitted request is the value of
\* the domain's environment slot whenever that slot holds one, whatever the
\* tenant record holds, and the record's own secret only when the slot is
\* empty.
C13_EnvSecretOverrides ==
    \A q \in Visible :
        q.admitted
        => q.tenant.tronPrivateKey =
              IF EnvLookup(EnvKeyName(q.domain)) # ""
              THEN EnvLookup(EnvKeyName(q.domain))
              ELSE tenantsFile[q.domain].tronPrivateKey

C13_Witness ==
    \E q \in Visible :
        /\ q.admitted
        /\ q.domain = A_COM
        /\ tenantsFile[A_COM].tronPrivateKey = "fileKeyA"
        /\ EnvLookup(EnvKeyName(A_COM)) = "envKeyA"
        /\ q.tenant.tronPrivateKey = "envKeyA"

\* The domain each source yields on its own (empty when it yields none)
OriginDomain(h) ==
    IF h.origin.kind = "url" THEN ReplaceFirst(h.origin.hostname, WWW_DOT)
    ELSE EMPTY

HostDomain(h) == BeforeColon(ReplaceFirst(h.host, WWW_DOT))

RefererDomain(h) ==
    IF h.referer.kind = "url" THEN ReplaceFirst(h.referer.hostname, WWW_DOT)
    ELSE EMPTY

\* The domain of the first source that yields one, in the order Origin,
\* Host, Referer; empty only when none does
FirstUsable(h) ==
    IF OriginDomain(h) # EMPTY THEN OriginDomain(h)
    ELSE IF HostDomain(h) # EMPTY THEN HostDomain(h)
    ELSE RefererDomain(h)

\* C14: whatever Origin, Host and Referer a request carries, the domain it
\* resolves to is the domain of the first source that yields one in the order
\* Origin, Host, Referer, and no domain is found only when no source yields
\* one.
C14_FirstUsableSource ==
    \A q \in Visible : q.corsPassed => q.domain = FirstUsable(q.hdr)

\* The header that decides the resolution carries the host name n
Carries(h, n) ==
    \/ (h.origin.kind = "url" /\ h.origin.hostname = n)
    \/ (h.origin.kind = "absent" /\ h.host = n)
    \/ (h.origin.kind = "absent" /\ h.host = EMPTY
            /\ h.referer.kind = "url" /\ h.referer.hostname = n)

\* C15: for every domain d of tenants.json, a request that carries d and a
\* request that carries "www." followed by d both resolve to d, at the gate
\* and at /verify-domain, and so to the same tenant.
C15_WwwSameTenant ==
    \A q \in Visible :
        \A d \in DOMAIN tenantsFile :
            (q.corsPassed /\ (Carries(q.hdr, d) \/ Carries(q.hdr, WWW_DOT \o d)))
            => (q.domain = d /\ q.ownTenant)

\* C16: a /send-trx request that read a target balance of at least the
\* tenant's minimum balance is answered in the step of that read with the
\* success response sent=false, without having queried the tenant wallet,
\* signed, broadcast or notified, and the step changes no balance and adds no
\* transfer.
C16_NoTransferWhenFunded ==
    [][\A q \in Acted :
          (/\ q.endpoint = "send-trx"
           /\ q.balanceRead # NoAmount
           /\ q.balanceRead >= toSun(q.tenant.minimumBalance))
          => /\ q.pc = "done"
             /\ q.status = 200
             /\ q.sent = "false"
             /\ q.walletRead = NoAmount
             /\ ~q.signed
             /\ q.submitted = 0
             /\ q.topUp = "none"
             /\ q.txid = NoTxid
             /\ transfers' = transfers
             /\ balance' = balance]_vars

C16_Witness ==
    /\ last.pc = "done"
    /\ last.endpoint = "send-trx"
    /\ last.sent = "false"
    /\ last.status = 200
    /\ Len(transfers) = 1
    /\ transfers[1].to = last.userAddress
    /\ last.balanceRead >= toSun(last.tenant.minimumBalance)

\* C17: a /send-trx request that read a target balance below the tenant's
\* minimum balance and a wallet balance below the tenant's autoSendAmount is
\* answered in the step of the wallet read with 500 "Server has insufficient
\* funds", the balance it read and the amount required; it has signed,
\* broadcast and notified nothing, and the step changes no balance and adds
\* no transfer.
C17_InsufficientServerFunds ==
    [][\A q \in Acted :
          (/\ q.endpoint = "send-trx"
           /\ q.balanceRead # NoAmount
           /\ q.balanceRead < toSun(q.tenant.minimumBalance)
           /\ q.walletRead # NoAmount
           /\ q.walletRead < toSun(q.tenant.autoSendAmount))
          => /\ q.pc = "done"
             /\ q.status = 500
             /\ q.error = "Server has insufficient funds"
             /\ toSun(q.serverBalance.trx) + q.serverBalance.micro = q.walletRead
             /\ q.required = q.tenant.autoSendAmount
             /\ q.sent = "na"
             /\ ~q.signed
             /\ q.submitted = 0
             /\ q.topUp = "none"
             /\ transfers' = transfers
             /\ balance' = balance]_vars

C17_Witness ==
    /\ last.pc = "done"
    /\ last.endpoint = "send-trx"
    /\ last.status = 500
    /\ last.error = "Server has insufficient funds"
    /\ last.balanceRead = toSun(11) - 1
    /\ last.walletRead = toSun(13) - 1
    /\ last.required = 13

\* The transfer the tenant set and the request of slot r call for
Expected(r, id) ==
    [txid |-> id, domain |-> req[r].domain,
     from |-> tenantsFile[req[r].domain].tronAddress,
     to |-> req[r].userAddress,
     amount |-> toSun(tenantsFile[req[r].domain].autoSendAmount)]

\* C18: no request calls the broadcast more than once; a step adds at most
\* one transfer, and only for a request that was waiting for its one
\* broadcast and leaves that wait for good; the transfer is of the tenant's
\* autoSendAmount, from the tenant's wallet, to the address the request
\* named.
C18_AtMostOneTransfer ==
    [][/\ \A q \in Acted : q.submitted <= 1
       /\ \A r \in Slots : req[r].pc = "awaitTopUp" => req'[r].pc \in {"awaitTopUp", "idle"}
       /\ Len(transfers') <= Len(transfers) + 1
       /\ Len(transfers') = Len(transfers) + 1
          => \E r \in Slots :
                /\ req[r].pc = "awaitBroadcast"
                /\ req[r].submitted = 1
                /\ req'[r].pc \in {"awaitTopUp", "idle"}
                /\ SubSeq(transfers', 1, Len(transfers)) = transfers
                /\ transfers'[Len(transfers')] = Expected(r, Len(transfers'))]_vars

C18_Witness ==
    /\ last.pc = "done"
    /\ last.endpoint = "send-trx"
    /\ last.sent = "true"
    /\ last.submitted = 1
    /\ Len(transfers) = 1
    /\ transfers[1] = [txid |-> 1, domain |-> last.domain,
                       from |-> tenantsFile[last.domain].tronAddress,
                       to |-> USER, amount |-> toSun(13)]

\* C19: a /send-trx request whose broadcast answered without success is
\* answered 500 "Failed to send TRX" (Transaction failed), never sent=true,
\* and no funding notification is attempted for it.
C19_RefusedBroadcastFails ==
    \A q \in Visible :
        q.broadcast = "refused"
        => /\ q.pc = "done"
           /\ q.status = 500
           /\ q.error = "Failed to send TRX"
           /\ q.message = "Transaction failed"
           /\ q.sent # "true"
           /\ q.txid = NoTxid
           /\ q.topUp = "none"

C19_Witness ==
    /\ last.pc = "done"
    /\ last.endpoint = "send-trx"
    /\ last.broadcast = "refused"
    /\ last.submitted = 1
    /\ last.status = 500
    /\ TelegramConfigured(last.tenant)
    /\ transfers = <<>>

\* C20: a /send-trx request whose broadcast was accepted is not answered
\* before the funding notification was attempted (the chat transport called,
\* or the attempt skipped for missing chat credentials), and its answer is
\* the success response with sent=true, the transaction id and the amount,
\* whatever became of the notification.
C20_SuccessWhateverNotification ==
    \A q \in Visible :
        q.broadcast = "accepted"
        => \/ /\ q.pc = "awaitTopUp"
              /\ TelegramConfigured(q.tenant)
              /\ q.topUp = "called"
           \/ /\ q.pc = "done"
              /\ q.status = 200
              /\ q.sent = "true"
              /\ q.txid \in 1..Len(transfers)
              /\ transfers[q.txid].to = q.userAddress
              /\ q.amount = tenantsFile[q.domain].autoSendAmount
              /\ q.recipient = q.userAddress
              /\ IF TelegramConfigured(q.tenant)
                 THEN q.topUp \in TransportOutcomes
                 ELSE q.topUp = "skipped"

C20_Witness ==
    /\ last.pc = "done"
    /\ last.endpoint = "send-trx"
    /\ last.broadcast = "accepted"
    /\ last.topUp = "throw"
    /\ last.status = 200
    /\ last.sent = "true"

\* The request has found the target short of funds and has not had the
\* answer of its broadcast yet
CheckedNotActed(q) ==
    /\ q.endpoint = "send-trx"
    /\ q.pc \in {"awaitWallet", "awaitBuild", "awaitSign", "awaitBroadcast"}

\* C21: nothing holds back a /send-trx request while another request for
\* the same tenant and target is between its balance check and its
\* broadcast: its own read of the target's balance can complete, and when
\* the balance is still below the threshold it goes on to fund the target
\* as well.
C21_NoMutualExclusion ==
    \A r1, r2 \in Slots :
        (/\ r1 # r2
         /\ CheckedNotActed(req[r1])
         /\ req[r2].endpoint = "send-trx"
         /\ req[r2].pc = "awaitBalance"
         /\ req[r2].domain = req[r1].domain
         /\ req[r2].userAddress = req[r1].userAddress
         /\ balance[req[r2].userAddress] < toSun(req[r2].tenant.minimumBalance))
        => ENABLED (BalanceReturns(r2) /\ req'[r2].pc = "awaitWallet")

\* Two requests for the same tenant and target both read a balance below
\* the threshold and both had their transfer accepted: the target received
\* the amount twice for one shortfall.
C21_Witness ==
    /\ req[1].pc = "awaitTopUp"
    /\ req[2].pc = "awaitTopUp"
    /\ req[1].domain = req[2].domain
    /\ req[1].userAddress = req[2].userAddress
    /\ req[1].balanceRead = toSun(11) - 1
    /\ req[2].balanceRead = toSun(11) - 1
    /\ req[1].broadcast = "accepted"
    /\ req[2].broadcast = "accepted"
    /\ Len(transfers) = 2
    /\ balance[req[1].userAddress] = toSun(11) - 1 + toSun(13) + toSun(13)

\* C22: a /send-trx request whose broadcast gave no definite answer (the
\* call rejected, as on a timeout) is answered with an error of another
\* category than the 500 "Failed to send TRX" that a refused broadcast gets.
C22_TimeoutDistinctClass ==
    \A q \in Visible :
        (q.endpoint = "send-trx" /\ q.broadcast = "threw")
        => /\ q.pc = "done"
           /\ ~(q.status = 500 /\ q.error = "Failed to send TRX")

\* A step that answers a request to an administrative endpoint
AdminStep ==
    /\ nreq' = nreq + 1
    /\ last' = IdleRequest
    /\ req' = req

\* C23: a request to an administrative endpoint (add-tenant, tenants,
\* toggle-, enable-, disable-domain) whose adminKey is not the configured
\* ADMIN_KEY is answered 401 "Unauthorized" without a tenant list and
\* leaves tenants.json as it was.
C23_WrongKeyUnauthorized ==
    [][(AdminStep /\ adminResp'.adminKey # ADMIN_KEY)
       => /\ adminResp'.status = 401
          /\ adminResp'.error = "Unauthorized"
          /\ adminResp'.tenants = {}
          /\ tenantsFile' = tenantsFile]_vars

C23_Witness ==
    /\ adminResp.endpoint = "add-tenant"
    /\ adminResp.adminKey = "wrongKey"
    /\ adminResp.domain = EVIL_COM
    /\ adminResp.tronPrivateKey = "bodyKey"
    /\ adminResp.status = 401
    /\ EVIL_COM \notin DOMAIN tenantsFile

C25_NoEnvSecretInStore ==
    \A d \in DOMAIN tenantsFile :
        EnvLookup(EnvKeyName(d)) # ""
        => tenantsFile[d].tronPrivateKey # EnvLookup(EnvKeyName(d))

\* The signing secrets the server can resolve: tronPrivateKey of the records
\* loadTenants returns (file and environment), and the keys a client may send
SigningSecrets ==
    ({loadTenants(tenantsFile)[d].tronPrivateKey : d \in DOMAIN tenantsFile}
        \cup AddKeys) \ {""}

\* The request of adminResp without the tronPrivateKey of its body gets the
\* same status and error, for some address and some outcome of the save
SameWithoutBodyKey ==
    \E a \in AddAddresses, ok \in BOOLEAN :
        LET without == AddTenantOutcome(adminResp.adminKey, adminResp.domain, "",
                                        a, ok, tenantsFile).resp
        IN  /\ without.status = adminResp.status
            /\ without.error = adminResp.error

\* C26: no response of the administrative endpoints or of /server-info
\* carries a signing secret, and the response of add-tenant is the one the
\* same request gets without a signing secret in its body.
C26_SecretNeitherShownNorUsed ==
    /\ \A e \in adminResp.tenants :
          /\ "tronPrivateKey" \notin DOMAIN e
          /\ e.tronAddress \notin SigningSecrets
    /\ last.endpoint = "server-info" => last.serverAddress \notin SigningSecrets
    /\ (adminResp.endpoint = "add-tenant" /\ adminResp.tronPrivateKey # "")
       => SameWithoutBodyKey

\* The capital letters of the model's alphabet (the images of UpperChar)
Capitals == {"A", "B", "C", "D", "E", "N", "O", "R", "S", "T", "U", "W", "X"}

\* A key in the form of a resolved domain: the hostname of a parsed URL is
\* in lower case, and extractDomain removes a leading "www."
Canonical(d) ==
    /\ \A i \in 1..Len(d) : d[i] \notin Capitals
    /\ ~OccursAt(d, WWW_DOT, 1)

\* C27: every key of tenants.json is canonical: in lower case and without a
\* leading "www." label.
C27_KeysCanonical == \A d \in DOMAIN tenantsFile : Canonical(d)

\* sendApprovalNotification was called and did not deliver: the tenant has no
\* chat credentials, the transport answered without ok, or its call rejected
DeliveryFailed(q) ==
    /\ ApproveCall(q)
    /\ q.attempted
    /\ \/ ~TelegramConfigured(q.tenant)
       \/ q.outcome \in {"notOk", "throw"}

\* C28: an approval call whose notification was not delivered (missing chat
\* credentials, a response without ok, a transport error) is answered 200
\* without an error and with notificationSent=false.
C28_DeliveryFailureIsSuccess ==
    \A q \in Visible :
        DeliveryFailed(q)
        => /\ q.pc = "done"
           /\ q.status = 200
           /\ q.error = ""
           /\ q.notificationSent = "false"

C28_Witness ==
    /\ DeliveryFailed(last)
    /\ last.outcome = "throw"
    /\ last.lookup.kind = "returned"
    /\ last.status = 200
    /\ last.notificationSent = "false"

NotifyTypes == {"transaction_approve", "wallet_connect"}

\* The request was answered at once and nothing was dispatched or recorded
NothingDispatched(q) ==
    /\ q.pc = "done"
    /\ ~q.reachedDedup
    /\ ~q.attempted
    /\ ~q.transport
    /\ q.lookup = NoLookup
    /\ processedTransactions' = processedTransactions
    /\ sent' = sent

\* C29: an admitted /telegram-notify request with a type outside
\* {transaction_approve, wallet_connect} is answered 400 'Invalid notification
\* type'; it and a wallet_connect request call neither the lookup nor the
\* chat transport and leave the processed sets as they were.
C29_ClosedTypeSet ==
    [][\A q \in Acted :
          (q.endpoint = "telegram-notify" /\ q.admitted)
          => /\ q.body.type \notin NotifyTypes
                => /\ NothingDispatched(q)
                   /\ q.status = 400
                   /\ q.error = "Invalid notification type"
             /\ q.body.type = "wallet_connect"
                => /\ NothingDispatched(q)
                   /\ q.status = 200
                   /\ q.notificationSent = "false"]_vars

C29_Witness ==
    /\ last.pc = "done"
    /\ last.admitted
    /\ last.body.type = "price_alert"
    /\ last.body.approved = "true"
    /\ last.body.transactionId \in TxIds
    /\ chain[last.body.transactionId] = "SUCCESS"
    /\ last.status = 400
    /\ last.body.transactionId \notin IdsOf(processedTransactions, last.domain)

\* C30: a transaction id is in a domain's processed set only if the chat
\* transport was called for that domain and id.
C30_ProcessedOnlyIfProduced ==
    \A k \in SentKeys :
        (k[2] # NoTx /\ k[2] \in IdsOf(processedTransactions, k[1]))
        => sent[k] > 0

\* The tenant lacks a bot token or a channel id
LacksCredentials(tenant) ==
    tenant.telegramBotToken = "" \/ tenant.telegramChatId = ""

\* C31: for a tenant without a bot token or without a channel id, the funding
\* notification and the approval notification call no chat transport and
\* return false without raising: the funding request is answered with its
\* success, the approval request with notificationSent=false.
C31_NoCredentialsNoCall ==
    /\ \A q \in Visible :
          (q.admitted /\ LacksCredentials(q.tenant))
          => /\ (q.endpoint = "send-trx" /\ q.broadcast = "accepted")
                => /\ q.pc = "done"
                   /\ q.topUp = "skipped"
                   /\ q.status = 200
             /\ (q.endpoint = "telegram-notify" /\ q.attempted)
                => /\ q.pc = "done"
                   /\ ~q.transport
                   /\ q.outcome = "none"
                   /\ q.notificationSent = "false"
                   /\ q.status = 200
    /\ \A k \in SentKeys :
          LacksCredentials(tenantsFile[k[1]]) => sent[k] = 0

C31_Witness ==
    /\ last.pc = "done"
    /\ last.endpoint = "send-trx"
    /\ last.tenant.telegramBotToken # ""
    /\ last.tenant.telegramChatId = ""
    /\ last.broadcast = "accepted"
    /\ last.topUp = "skipped"
    /\ last.status = 200

\* The host of the source extractDomain uses, without the port of a Host
\* header
SourceHost(h) ==
    IF h.origin.kind = "url" THEN h.origin.hostname
    ELSE IF h.host # EMPTY THEN BeforeColon(h.host)
    ELSE IF h.referer.kind = "url" THEN h.referer.hostname
    ELSE EMPTY

\* C32: a request whose host does not begin with "www." resolves to that
\* host unchanged (apart from the port of a Host header).
C32_OnlyLeadingWww ==
    \A q \in Visible :
        (q.corsPassed /\ ~OccursAt(SourceHost(q.hdr), WWW_DOT, 1))
        => q.domain = SourceHost(q.hdr)

\* C33: in a process without ADMIN_KEY in its environment every
\* administrative request is answered 401 without a tenant list, and
\* tenants.json stays as it was.
C33_NoCredentialNoAccess ==
    envAdminKey = Undefined
    => /\ tenantsFile = InitialTenantsFile
       /\ adminResp.endpoint # ""
          => /\ adminResp.status = 401
             /\ adminResp.tenants = {}

\* The step is a successful enable-domain, or toggle-domain with
\* enabled=true, for domain d
ExplicitEnable(d) ==
    /\ AdminStep
    /\ adminResp'.endpoint = "switch"
    /\ adminResp'.domain = d
    /\ adminResp'.status = 200

\* The step is a toggle-, enable- or disable-domain for a domain that is not
\* in tenants.json and was not refused for its credential or its fields
SwitchOfUnknown ==
    /\ AdminStep
    /\ adminResp'.endpoint = "switch"
    /\ adminResp'.domain \notin DOMAIN tenantsFile
    /\ adminResp'.status \notin {400, 401}

\* C34: the enabled flag of a stored domain goes from "false" to "true" only
\* in a successful explicit enable of that domain, and a switch request for
\* a domain that is not stored is answered 404 and leaves tenants.json as it
\* was.
C34_OnlyExplicitEnable ==
    [][/\ \A d \in DOMAIN tenantsFile :
             (/\ tenantsFile[d].enabled = "false"
              /\ d \in DOMAIN tenantsFile'
              /\ tenantsFile'[d].enabled = "true")
             => ExplicitEnable(d)
       /\ SwitchOfUnknown
          => /\ adminResp'.status = 404
             /\ tenantsFile' = tenantsFile]_vars

ResponseRoutes == {"send-trx", "telegram-notify", "check-balance", "transaction-status"}

\* A request that is answered has one response, one that waits has none
OneResponse(q) ==
    /\ q.endpoint \in ResponseRoutes
    /\ q.responses = (IF q.pc = "done" THEN 1 ELSE 0)

\* A step that receives a request answers it or leaves it waiting in a slot,
\* and a request leaves its slot only as the request the step answered
NoneDropped ==
    /\ nreq' = nreq + 1 => Acted # {}
    /\ \A r \in Slots :
          (req[r].pc # "idle" /\ req'[r].pc = "idle")
          => /\ last'.pc = "done"
             /\ last'.endpoint = req[r].endpoint
             /\ last'.hdr = req[r].hdr
             /\ last'.body = req[r].body

\* C35: every request to /send-trx, /telegram-notify, /check-balance and
\* /transaction-status is answered exactly once: a request that waits for a
\* collaborator has no response yet and is eventually answered, an answered
\* request has one response, and no request is dropped.
C35_ExactlyOneResponse ==
    /\ [](\A q \in Visible : OneResponse(q))
    /\ [][NoneDropped]_vars
    /\ \A r \in Slots : (req[r].pc # "idle") ~> (req[r].pc = "idle")

C35_Witness ==
    /\ last.pc = "done"
    /\ last.endpoint = "transaction-status"
    /\ last.lookup = LookupError
    /\ last.status = 500
    /\ last.responses = 1
    /\ \E r \in Slots : req[r].pc = "awaitBroadcast"
====
